---------------------------- MODULE Spec2Model ----------------------------
(***************************************************************************)
(* Model of the ESP32 autofeeder pump controller                           *)
(* (src/ESP32/pump_control.obj/pump_control.obj.ino): setup() with the     *)
(* persisted-state load and the calibration procedure, runPump(), and the  *)
(* decision loop() with its overflow protection.  One action per statement *)
(* that changes program or persisted state, so that a reset can fall       *)
(* between any two of them.                                                *)
(***************************************************************************)
EXTENDS Integers, Sequences, FiniteSets, TLC

VARIABLES
    pc,                           \* position of the single thread of control
    caller,                       \* who called runPump: "setup" or "loop"
    overflow_protect,             \* int overflow_protect
    emptyCapacitiveValue,         \* uint16_t emptyCapacitiveValue
    fullCapacitiveValue,          \* uint16_t fullCapacitiveValue
    totalPumpsSincePowerUp,       \* uint32_t
    totalPumpsSinceCalibration,   \* uint32_t
    prefCalibrationValue,         \* int prefCalibrationValue, local of setup()
    capacitiveValue,              \* int capacitiveValue, local of loop()
    calTriggered,                 \* setup() took the calibration branch
    started,                      \* the Preferences handle is open
    store,                        \* the NVS namespace "prefs": key -> value
    storeOK,                      \* whether the NVS namespace can be opened
    pumpOut,                      \* last duty written to the pump PWM channel
    lastReading,                  \* history: what getSmoothedTouch returned last
    bootStore,                    \* history: the store's content at the last boot
    pumpsDone,                    \* history: actuations completed since the last calibration
    crashes,                      \* history: number of resets so far
    overIters,                    \* history: over-threshold loop iterations since boot
    loopPumps,                    \* history: runPump calls made by loop() since boot
    cooldowns,                    \* history: cooldown pauses taken since boot
    idleFirst,                    \* history: an idle iteration came before the first over-threshold one
    button,                       \* history: the last digitalRead(BUTTON_IN)
    sawLow,                       \* history: some read of the button since boot was LOW
    calChecks,                    \* history: checks of the calibration loop that read LOW
    calLogs,                      \* history: readings logged by the calibration loop
    commitPending,                \* history: the store holds a calibrated capValue whose counter reset is not written
    sinceCooldown,                \* history: actuations of loop() since the last cooldown (or boot)
    touchInput,                   \* getSmoothedTouch: the values touchRead delivers, in order
    g_samples,                    \* getSmoothedTouch: uint16_t samples
    g_i,                          \* getSmoothedTouch: uint16_t i
    g_sum,                        \* getSmoothedTouch: uint32_t sum
    smoothed,                     \* getSmoothedTouch: the value returned
    spc                           \* getSmoothedTouch: position in the function

vars == <<pc, caller, overflow_protect, emptyCapacitiveValue, fullCapacitiveValue,
          totalPumpsSincePowerUp, totalPumpsSinceCalibration, prefCalibrationValue,
          capacitiveValue, calTriggered, started, store, storeOK, pumpOut,
          lastReading, bootStore, pumpsDone, crashes, overIters, loopPumps, cooldowns,
          idleFirst, button, sawLow, calChecks, calLogs, commitPending,
          sinceCooldown, touchInput, g_samples, g_i, g_sum, smoothed, spc>>

\* the state of setup(), runPump() and loop()
program == <<pc, caller, overflow_protect, emptyCapacitiveValue, fullCapacitiveValue,
             totalPumpsSincePowerUp, totalPumpsSinceCalibration, prefCalibrationValue,
             capacitiveValue, calTriggered, started, store, storeOK, pumpOut,
             lastReading, bootStore, pumpsDone, crashes, overIters, loopPumps,
             cooldowns, idleFirst, button, sawLow, calChecks, calLogs,
             commitPending, sinceCooldown>>

\* what the properties of the calibration loop and of the commit observe
observed == <<button, sawLow, calChecks, calLogs, commitPending, sinceCooldown>>

\* the locals of one call of getSmoothedTouch followed statement by statement
smooth == <<touchInput, g_samples, g_i, g_sum, smoothed, spc>>

globals == <<overflow_protect, emptyCapacitiveValue, fullCapacitiveValue,
             totalPumpsSincePowerUp, totalPumpsSinceCalibration>>

history == <<bootStore, pumpsDone, crashes, overIters, loopPumps, cooldowns,
            idleFirst>>

---------------------------------------------------------------------------
(* Bounds of the model *)

\* a followed call of getSmoothedTouch is asked for at most this many samples
MaxSamples == 3

\* a session makes at most this many runPump calls
MaxPumps == 7
\* at most this many resets
MaxCrashes == 1

---------------------------------------------------------------------------
(* Program constants *)

capKey == "capValue"
pumpKey == "totalPump"
dutyCycle == 125
DefaultFullCapacitiveValue == 45
\* overflow_protect > 5
OverflowLimit == 5
\* getSmoothedTouch(..., uint16_t samples = 64, ...)
DefaultSamples == 64

\* uint16_t holds 0 .. U16 - 1; a conversion to it wraps modulo U16
U16 == 65536

ToU16(x) == x % U16

\* The uint32_t variables (the two pump counters, the sum of the samples) are
\* plain naturals here: the counters stay below MaxPumps plus the persisted
\* start value, and a sum of DefaultSamples uint16_t values is below 2^22.

---------------------------------------------------------------------------
(* Inputs *)

\* raw touchRead() values (uint16_t) the sensor delivers
RawValues == {10, 50, 65535}

\* one call of getSmoothedTouch reads DefaultSamples raw values
RawInputs == {[i \in 1..DefaultSamples |-> v] : v \in RawValues}
                 \cup {[i \in 1..DefaultSamples |-> IF i % 2 = 0 THEN 50 ELSE 51]}

\* digitalRead(BUTTON_IN)
Levels == {0, 1}

RECURSIVE SumSeq(_)
SumSeq(s) == IF s = <<>> THEN 0 ELSE Head(s) + SumSeq(Tail(s))

\* uint16_t getSmoothedTouch(touchPin, samples, delayMicros): the samples read
\* are the first `samples` elements of raw
getSmoothedTouch(raw, samples) ==
    ToU16(SumSeq(SubSeq(raw, 1, samples)) \div samples)

---------------------------------------------------------------------------
(* Preferences (NVS) *)

\* the key-value content a namespace written by this firmware can hold
NoKeys == [k \in {} |-> 0]

\* prefs.begin(ns, false): the handle is open afterwards iff it was open or
\* the namespace can be opened
prefsBegin(isOpen) == isOpen \/ storeOK

\* prefs.getInt / prefs.getUInt (key, defaultValue)
prefsGet(key, default) ==
    IF started /\ key \in DOMAIN store THEN store[key] ELSE default

\* prefs.putInt / prefs.putUInt (key, value): the store afterwards
prefsPut(key, value) ==
    IF started
    THEN [k \in DOMAIN store \cup {key} |-> IF k = key THEN value ELSE store[k]]
    ELSE store

StoredPump == IF pumpKey \in DOMAIN store THEN store[pumpKey] ELSE 0

---------------------------------------------------------------------------
(* Initial state: power-up with some persisted content *)

\* capValue as this firmware leaves it: absent, or a uint16_t written by putInt
BootCapValues == {0, 30}
\* totalPump as this firmware leaves it
BootPumpValues == {2}

Stores(caps, pumps) ==
    {NoKeys} \cup {capKey :> c : c \in caps} \cup {pumpKey :> p : p \in pumps}
        \cup {(capKey :> c) @@ (pumpKey :> p) : c \in caps, p \in pumps}

PowerUp(s) ==
    /\ pc = "s_begin1"
    /\ caller = "setup"
    /\ overflow_protect = 0
    /\ emptyCapacitiveValue = 0
    /\ fullCapacitiveValue = DefaultFullCapacitiveValue
    /\ totalPumpsSincePowerUp = 0
    /\ totalPumpsSinceCalibration = 0
    /\ prefCalibrationValue = 0
    /\ capacitiveValue = 0
    /\ calTriggered = FALSE
    /\ started = FALSE
    /\ pumpOut = 0
    /\ lastReading = 0
    /\ store = s
    /\ bootStore = s
    /\ pumpsDone = (IF pumpKey \in DOMAIN s THEN s[pumpKey] ELSE 0)
    /\ crashes = 0
    /\ overIters = 0
    /\ loopPumps = 0
    /\ cooldowns = 0
    /\ idleFirst = FALSE
    /\ button = 0
    /\ sawLow = FALSE
    /\ calChecks = 0
    /\ calLogs = 0
    /\ commitPending = FALSE
    /\ sinceCooldown = 0

\* no call of getSmoothedTouch is being followed
SmoothIdle ==
    /\ touchInput = <<>>
    /\ g_samples = 0
    /\ g_i = 0
    /\ g_sum = 0
    /\ smoothed = 0
    /\ spc = "idle"

Init ==
    /\ storeOK \in BOOLEAN
    /\ \E s \in Stores(BootCapValues, BootPumpValues) : PowerUp(s)
    /\ SmoothIdle

---------------------------------------------------------------------------
(* setup(): load of the persisted state *)

\* a failed open treated as fatal: setup() goes on only once the store opens
SetupBegin1_Fatal ==
    /\ pc = "s_begin1"
    /\ prefsBegin(started)
    /\ started' = TRUE
    /\ pc' = "s_getPump"
    /\ UNCHANGED <<smooth, observed, lastReading, caller, globals, prefCalibrationValue,
                   capacitiveValue, calTriggered, store, storeOK, pumpOut,
                   history>>

\* line 106: prefs.begin(ns, false)
SetupBegin1 ==
    /\ pc = "s_begin1"
    /\ started' = prefsBegin(started)
    /\ pc' = "s_getPump"
    /\ UNCHANGED <<smooth, observed, lastReading, caller, globals, prefCalibrationValue, capacitiveValue,
                   calTriggered, store, storeOK, pumpOut, history>>

\* the persisted counter not loaded at boot
SetupLoadPump_Skip ==
    /\ pc = "s_getPump"
    /\ totalPumpsSinceCalibration' = totalPumpsSinceCalibration
    /\ pc' = "s_end1"
    /\ UNCHANGED <<smooth, observed, lastReading, caller, overflow_protect, emptyCapacitiveValue,
                   fullCapacitiveValue, totalPumpsSincePowerUp,
                   prefCalibrationValue, capacitiveValue, calTriggered, started,
                   store, storeOK, pumpOut, history>>

\* line 110: totalPumpsSinceCalibration = prefs.getUInt(pumpKey, 0)
SetupLoadPump ==
    /\ pc = "s_getPump"
    /\ totalPumpsSinceCalibration' = prefsGet(pumpKey, 0)
    /\ pc' = "s_end1"
    /\ UNCHANGED <<smooth, observed, lastReading, caller, overflow_protect, emptyCapacitiveValue,
                   fullCapacitiveValue, totalPumpsSincePowerUp,
                   prefCalibrationValue, capacitiveValue, calTriggered, started,
                   store, storeOK, pumpOut, history>>

\* line 111: prefs.end()
SetupEnd1 ==
    /\ pc = "s_end1"
    /\ started' = FALSE
    /\ pc' = "s_begin2"
    /\ UNCHANGED <<smooth, observed, lastReading, caller, globals, prefCalibrationValue, capacitiveValue,
                   calTriggered, store, storeOK, pumpOut, history>>

\* line 116: prefs.begin(ns, false)
SetupBegin2 ==
    /\ pc = "s_begin2"
    /\ started' = prefsBegin(started)
    /\ pc' = "s_getCap"
    /\ UNCHANGED <<smooth, observed, lastReading, caller, globals, prefCalibrationValue, capacitiveValue,
                   calTriggered, store, storeOK, pumpOut, history>>

\* line 117: int prefCalibrationValue = prefs.getInt(capKey, 0)
SetupGetCap ==
    /\ pc = "s_getCap"
    /\ prefCalibrationValue' = prefsGet(capKey, 0)
    /\ pc' = "s_check"
    /\ UNCHANGED <<smooth, observed, lastReading, caller, globals, capacitiveValue, calTriggered, started,
                   store, storeOK, pumpOut, history>>

\* line 118: if (prefCalibrationValue == 0)
CalibrationUnset == prefCalibrationValue = 0

\* the default used but not persisted
SetupStoreDefault_NotPersisted ==
    /\ pc = "s_check"
    /\ CalibrationUnset
    /\ pc' = "s_end2"
    /\ UNCHANGED <<smooth, observed, lastReading, caller, globals, prefCalibrationValue,
                   capacitiveValue, calTriggered, started, store, storeOK,
                   pumpOut, history>>

\* lines 118-122: no stored threshold, persist the compiled-in default
SetupStoreDefault ==
    /\ pc = "s_check"
    /\ CalibrationUnset
    /\ store' = prefsPut(capKey, fullCapacitiveValue)
    /\ pc' = "s_end2"
    /\ UNCHANGED <<smooth, observed, lastReading, caller, globals, prefCalibrationValue, capacitiveValue,
                   calTriggered, started, storeOK, pumpOut, history>>

\* line 124: fullCapacitiveValue = prefCalibrationValue (int to uint16_t)
AdoptedThreshold == ToU16(prefCalibrationValue)

\* lines 123-126: adopt the stored threshold
SetupAdopt ==
    /\ pc = "s_check"
    /\ ~CalibrationUnset
    /\ fullCapacitiveValue' = AdoptedThreshold
    /\ pc' = "s_end2"
    /\ UNCHANGED <<smooth, observed, lastReading, caller, overflow_protect, emptyCapacitiveValue,
                   totalPumpsSincePowerUp, totalPumpsSinceCalibration,
                   prefCalibrationValue, capacitiveValue, calTriggered, started,
                   store, storeOK, pumpOut, history>>

\* line 128: prefs.end()
SetupEnd2 ==
    /\ pc = "s_end2"
    /\ started' = FALSE
    /\ pc' = "s_button"
    /\ UNCHANGED <<smooth, observed, lastReading, caller, globals, prefCalibrationValue, capacitiveValue,
                   calTriggered, store, storeOK, pumpOut, history>>

\* lines 131-132: if (digitalRead(BUTTON_IN) == 1)
SetupButton ==
    /\ pc = "s_button"
    /\ \E b \in Levels :
          /\ button' = b
          /\ sawLow' = (sawLow \/ b = 0)
          /\ calTriggered' = (b = 1)
          /\ pc' = IF b = 1 THEN "c_empty" ELSE "s_end3"
    /\ UNCHANGED <<smooth, calChecks, calLogs, commitPending, sinceCooldown, lastReading, caller, globals, prefCalibrationValue, capacitiveValue,
                   started, store, storeOK, pumpOut, history>>

---------------------------------------------------------------------------
(* runPump() *)

\* the call of runPump() from `who`; a session makes at most MaxPumps calls
CallRunPump(who) ==
    /\ totalPumpsSincePowerUp < MaxPumps
    /\ caller' = who
    /\ pc' = "p_begin"

\* line 63: prefs.begin(ns, false)
PumpBegin ==
    /\ pc = "p_begin"
    /\ started' = prefsBegin(started)
    /\ pc' = "p_on"
    /\ UNCHANGED <<smooth, observed, lastReading, caller, globals, prefCalibrationValue, capacitiveValue,
                   calTriggered, store, storeOK, pumpOut, history>>

\* line 66: ledcWrite(pumpPin, dutyCycle)
PumpOn ==
    /\ pc = "p_on"
    /\ pumpOut' = dutyCycle
    /\ pc' = "p_off"
    /\ UNCHANGED <<smooth, observed, lastReading, caller, globals, prefCalibrationValue, capacitiveValue,
                   calTriggered, started, store, storeOK, history>>

\* the pump cycle ending without the write of 0
PumpOff_LeftOn ==
    /\ pc = "p_off"
    /\ pumpOut' = pumpOut
    /\ pumpsDone' = pumpsDone + 1
    /\ sinceCooldown' = IF caller = "loop" THEN sinceCooldown + 1 ELSE sinceCooldown
    /\ pc' = "p_count"
    /\ UNCHANGED <<smooth, button, sawLow, calChecks, calLogs, commitPending, lastReading, caller, globals, prefCalibrationValue, capacitiveValue,
                   calTriggered, started, store, storeOK, bootStore, crashes,
                   overIters, loopPumps, cooldowns, idleFirst>>

\* lines 68-69: delay(durationMs); ledcWrite(pumpPin, 0): the actuation is done
PumpOff ==
    /\ pc = "p_off"
    /\ pumpOut' = 0
    /\ pumpsDone' = pumpsDone + 1
    /\ sinceCooldown' = IF caller = "loop" THEN sinceCooldown + 1 ELSE sinceCooldown
    /\ pc' = "p_count"
    /\ UNCHANGED <<smooth, button, sawLow, calChecks, calLogs, commitPending, lastReading, caller, globals, prefCalibrationValue, capacitiveValue,
                   calTriggered, started, store, storeOK, bootStore, crashes,
                   overIters, loopPumps, cooldowns, idleFirst>>

\* lines 73-74: totalPumpsSincePowerUp++; totalPumpsSinceCalibration++
PumpCount ==
    /\ pc = "p_count"
    /\ totalPumpsSincePowerUp' = totalPumpsSincePowerUp + 1
    /\ totalPumpsSinceCalibration' = totalPumpsSinceCalibration + 1
    /\ pc' = "p_put"
    /\ UNCHANGED <<smooth, observed, lastReading, caller, overflow_protect, emptyCapacitiveValue,
                   fullCapacitiveValue, prefCalibrationValue, capacitiveValue,
                   calTriggered, started, store, storeOK, pumpOut, history>>

\* the counter persisted on every second pump cycle only
PumpPut_EveryOther ==
    /\ pc = "p_put"
    /\ store' = IF totalPumpsSinceCalibration % 2 = 0
                THEN prefsPut(pumpKey, totalPumpsSinceCalibration)
                ELSE store
    /\ pc' = "p_end"
    /\ UNCHANGED <<smooth, observed, lastReading, caller, globals, prefCalibrationValue,
                   capacitiveValue, calTriggered, started, storeOK, pumpOut,
                   history>>

\* the counter persisted under the threshold's key
PumpPut_WrongKey ==
    /\ pc = "p_put"
    /\ store' = prefsPut(capKey, totalPumpsSinceCalibration)
    /\ pc' = "p_end"
    /\ UNCHANGED <<smooth, observed, lastReading, caller, globals, prefCalibrationValue,
                   capacitiveValue, calTriggered, started, storeOK, pumpOut,
                   history>>

\* the wrong counter persisted
PumpPut_PowerUpCounter ==
    /\ pc = "p_put"
    /\ store' = prefsPut(pumpKey, totalPumpsSincePowerUp)
    /\ pc' = "p_end"
    /\ UNCHANGED <<smooth, observed, lastReading, caller, globals, prefCalibrationValue,
                   capacitiveValue, calTriggered, started, storeOK, pumpOut,
                   history>>

\* line 77: prefs.putUInt(pumpKey, totalPumpsSinceCalibration)
PumpPut ==
    /\ pc = "p_put"
    /\ store' = prefsPut(pumpKey, totalPumpsSinceCalibration)
    /\ pc' = "p_end"
    /\ UNCHANGED <<smooth, observed, lastReading, caller, globals, prefCalibrationValue, capacitiveValue,
                   calTriggered, started, storeOK, pumpOut, history>>

\* the calibration loop going back to its test with nothing logged
PumpEnd_SkipLog ==
    /\ pc = "p_end"
    /\ started' = FALSE
    /\ pc' = IF caller = "setup" THEN "c_while" ELSE "l_inc"
    /\ UNCHANGED <<smooth, observed, lastReading, caller, globals, prefCalibrationValue, capacitiveValue,
                   calTriggered, store, storeOK, pumpOut, history>>

\* lines 80-81: prefs.end(); return to the caller
PumpEnd ==
    /\ pc = "p_end"
    /\ started' = FALSE
    /\ pc' = IF caller = "setup" THEN "c_log" ELSE "l_inc"
    /\ UNCHANGED <<smooth, observed, lastReading, caller, globals, prefCalibrationValue, capacitiveValue,
                   calTriggered, store, storeOK, pumpOut, history>>

---------------------------------------------------------------------------
(* setup(): the calibration procedure *)

\* line 138: emptyCapacitiveValue = getSmoothedTouch(TOUCH_PIN)
CalEmpty ==
    /\ pc = "c_empty"
    /\ \E raw \in RawInputs :
          /\ lastReading' = getSmoothedTouch(raw, DefaultSamples)
          /\ emptyCapacitiveValue' = lastReading'
    /\ pc' = "c_while"
    /\ UNCHANGED <<smooth, observed, caller, overflow_protect, fullCapacitiveValue,
                   totalPumpsSincePowerUp, totalPumpsSinceCalibration,
                   prefCalibrationValue, capacitiveValue, calTriggered, started,
                   store, storeOK, pumpOut, history>>

\* the loop test inverted: the loop goes on while the button reads HIGH
CalPump_WhileHigh ==
    /\ pc = "c_while"
    /\ \E b \in Levels : b = 1 /\ button' = b
    /\ calChecks' = calChecks + 1
    /\ CallRunPump("setup")
    /\ UNCHANGED <<smooth, sawLow, calLogs, commitPending, sinceCooldown,
                   lastReading, globals, prefCalibrationValue, capacitiveValue,
                   calTriggered, started, store, storeOK, pumpOut, history>>

\* lines 144-145: while (digitalRead(BUTTON_IN) == 0) runPump()
CalPump ==
    /\ pc = "c_while"
    /\ \E b \in Levels : b = 0 /\ button' = b
    /\ sawLow' = TRUE
    /\ calChecks' = calChecks + 1
    /\ CallRunPump("setup")
    /\ UNCHANGED <<smooth, calLogs, commitPending, sinceCooldown, lastReading, globals, prefCalibrationValue, capacitiveValue, calTriggered,
                   started, store, storeOK, pumpOut, history>>

\* lines 146-148: log a fresh reading, pause, test the button again
CalLog ==
    /\ pc = "c_log"
    /\ \E raw \in RawInputs : lastReading' = getSmoothedTouch(raw, DefaultSamples)
    /\ calLogs' = calLogs + 1
    /\ pc' = "c_while"
    /\ UNCHANGED <<smooth, button, sawLow, calChecks, commitPending, sinceCooldown,
                   caller, globals, prefCalibrationValue, capacitiveValue,
                   calTriggered, started, store, storeOK, pumpOut, history>>

\* line 144: the button reads HIGH, the loop ends
CalExit ==
    /\ pc = "c_while"
    /\ \E b \in Levels : b = 1 /\ button' = b
    /\ pc' = "c_final"
    /\ UNCHANGED <<smooth, sawLow, calChecks, calLogs, commitPending, sinceCooldown, lastReading, caller, globals, prefCalibrationValue, capacitiveValue,
                   calTriggered, started, store, storeOK, pumpOut, history>>

\* line 152: getSmoothedTouch(TOUCH_PIN) + 1, stored in a uint16_t
CalibratedThreshold(reading) == ToU16(reading + 1)

\* lines 151-152: fullCapacitiveValue = getSmoothedTouch(TOUCH_PIN) + 1
CalFinal ==
    /\ pc = "c_final"
    /\ \E raw \in RawInputs :
          /\ lastReading' = getSmoothedTouch(raw, DefaultSamples)
          /\ fullCapacitiveValue' = CalibratedThreshold(lastReading')
    /\ pc' = "c_begin"
    /\ UNCHANGED <<smooth, observed, caller, overflow_protect, emptyCapacitiveValue,
                   totalPumpsSincePowerUp, totalPumpsSinceCalibration,
                   prefCalibrationValue, capacitiveValue, calTriggered, started, store, storeOK,
                   pumpOut, history>>

\* line 158: prefs.begin(ns, false)
CalBegin ==
    /\ pc = "c_begin"
    /\ started' = prefsBegin(started)
    /\ pc' = "c_putCap"
    /\ UNCHANGED <<smooth, observed, lastReading, caller, globals, prefCalibrationValue, capacitiveValue,
                   calTriggered, store, storeOK, pumpOut, history>>

\* line 160: prefs.putInt(capKey, fullCapacitiveValue)
CalPutCap ==
    /\ pc = "c_putCap"
    /\ store' = prefsPut(capKey, fullCapacitiveValue)
    /\ commitPending' = started
    /\ pc' = "c_reset"
    /\ UNCHANGED <<smooth, button, sawLow, calChecks, calLogs, sinceCooldown, lastReading, caller, globals, prefCalibrationValue, capacitiveValue,
                   calTriggered, started, storeOK, pumpOut, history>>

\* line 163: totalPumpsSinceCalibration = 0
CalReset ==
    /\ pc = "c_reset"
    /\ totalPumpsSinceCalibration' = 0
    /\ pc' = "c_putPump"
    /\ UNCHANGED <<smooth, observed, lastReading, caller, overflow_protect, emptyCapacitiveValue,
                   fullCapacitiveValue, totalPumpsSincePowerUp,
                   prefCalibrationValue, capacitiveValue, calTriggered, started,
                   store, storeOK, pumpOut, history>>

\* line 164: prefs.putUInt(pumpKey, totalPumpsSinceCalibration): a new
\* calibration epoch begins
CalPutPump ==
    /\ pc = "c_putPump"
    /\ store' = prefsPut(pumpKey, totalPumpsSinceCalibration)
    /\ pumpsDone' = 0
    /\ commitPending' = (commitPending /\ ~started)
    /\ pc' = "c_end"
    /\ UNCHANGED <<smooth, button, sawLow, calChecks, calLogs, sinceCooldown, lastReading, caller, globals, prefCalibrationValue, capacitiveValue,
                   calTriggered, started, storeOK, pumpOut, bootStore, crashes,
                   overIters, loopPumps, cooldowns, idleFirst>>

\* line 165: prefs.end()
CalEnd ==
    /\ pc = "c_end"
    /\ started' = FALSE
    /\ pc' = "s_end3"
    /\ UNCHANGED <<smooth, observed, lastReading, caller, globals, prefCalibrationValue, capacitiveValue,
                   calTriggered, store, storeOK, pumpOut, history>>

\* lines 170-171: blinkLED(5); prefs.end(); setup() returns
SetupEnd3 ==
    /\ pc = "s_end3"
    /\ started' = FALSE
    /\ pc' = "l_read"
    /\ UNCHANGED <<smooth, observed, lastReading, caller, globals, prefCalibrationValue, capacitiveValue,
                   calTriggered, store, storeOK, pumpOut, history>>

---------------------------------------------------------------------------
(* loop(): the decision loop *)

\* line 176: int capacitiveValue = getSmoothedTouch(TOUCH_PIN)
LoopRead ==
    /\ pc = "l_read"
    /\ \E raw \in RawInputs :
          /\ lastReading' = getSmoothedTouch(raw, DefaultSamples)
          /\ capacitiveValue' = lastReading'
    /\ pc' = "l_cmp"
    /\ UNCHANGED <<smooth, observed, caller, globals, prefCalibrationValue, calTriggered, started,
                   store, storeOK, pumpOut, history>>

\* line 190: if (capacitiveValue > fullCapacitiveValue)
OverThreshold == capacitiveValue > fullCapacitiveValue

\* the trip test off by one: >= in place of >
OverflowTripped_OffByOne == overflow_protect >= OverflowLimit

\* the trip test one too late
OverflowTripped_Late == overflow_protect > OverflowLimit + 1

\* line 191: if (overflow_protect > 5)
OverflowTripped == overflow_protect > OverflowLimit

\* an idle iteration that also clears the overflow counter
LoopIdle_Reset ==
    /\ pc = "l_cmp"
    /\ ~OverThreshold
    /\ overflow_protect' = 0
    /\ idleFirst' = (idleFirst \/ overIters = 0)
    /\ pc' = "l_read"
    /\ UNCHANGED <<smooth, observed, lastReading, caller, emptyCapacitiveValue, fullCapacitiveValue,
                   totalPumpsSincePowerUp, totalPumpsSinceCalibration,
                   prefCalibrationValue, capacitiveValue, calTriggered, started,
                   store, storeOK, pumpOut, bootStore, pumpsDone, crashes,
                   overIters, loopPumps, cooldowns>>

\* lines 190, 201: not over the threshold: only the pause between readings
LoopIdle ==
    /\ pc = "l_cmp"
    /\ ~OverThreshold
    /\ idleFirst' = (idleFirst \/ overIters = 0)
    /\ pc' = "l_read"
    /\ UNCHANGED <<smooth, observed, lastReading, caller, globals, prefCalibrationValue,
                   capacitiveValue, calTriggered, started, store, storeOK,
                   pumpOut, bootStore, pumpsDone, crashes, overIters, loopPumps,
                   cooldowns>>

\* lines 191-194, 201: the cooldown: delay(30000); overflow_protect = 0
LoopCooldown ==
    /\ pc = "l_cmp"
    /\ OverThreshold
    /\ OverflowTripped
    /\ overflow_protect' = 0
    /\ overIters' = overIters + 1
    /\ cooldowns' = cooldowns + 1
    /\ sinceCooldown' = 0
    /\ pc' = "l_read"
    /\ UNCHANGED <<smooth, button, sawLow, calChecks, calLogs, commitPending, lastReading, caller, emptyCapacitiveValue, fullCapacitiveValue,
                   totalPumpsSincePowerUp, totalPumpsSinceCalibration,
                   prefCalibrationValue, capacitiveValue, calTriggered, started,
                   store, storeOK, pumpOut, bootStore, pumpsDone, crashes,
                   loopPumps, idleFirst>>

\* line 196: runPump()
LoopPump ==
    /\ pc = "l_cmp"
    /\ OverThreshold
    /\ ~OverflowTripped
    /\ CallRunPump("loop")
    /\ overIters' = overIters + 1
    /\ loopPumps' = loopPumps + 1
    /\ UNCHANGED <<smooth, observed, lastReading, globals, prefCalibrationValue, capacitiveValue,
                   calTriggered, started, store, storeOK, pumpOut, bootStore,
                   pumpsDone, crashes, cooldowns, idleFirst>>

\* the counter advanced by two per pump cycle of loop()
LoopInc_Twice ==
    /\ pc = "l_inc"
    /\ overflow_protect' = overflow_protect + 2
    /\ pc' = "l_read"
    /\ UNCHANGED <<smooth, observed, lastReading, caller, emptyCapacitiveValue, fullCapacitiveValue,
                   totalPumpsSincePowerUp, totalPumpsSinceCalibration,
                   prefCalibrationValue, capacitiveValue, calTriggered, started,
                   store, storeOK, pumpOut, history>>

\* lines 197, 201: overflow_protect++, then the pause between readings
LoopInc ==
    /\ pc = "l_inc"
    /\ overflow_protect' = overflow_protect + 1
    /\ pc' = "l_read"
    /\ UNCHANGED <<smooth, observed, lastReading, caller, emptyCapacitiveValue, fullCapacitiveValue,
                   totalPumpsSincePowerUp, totalPumpsSinceCalibration,
                   prefCalibrationValue, capacitiveValue, calTriggered, started,
                   store, storeOK, pumpOut, history>>

---------------------------------------------------------------------------
(* A reset (power loss, watchdog, crash): RAM and peripherals start over,   *)
(* the NVS content stays                                                   *)

Reset ==
    /\ crashes < MaxCrashes
    /\ pc' = "s_begin1"
    /\ caller' = "setup"
    /\ overflow_protect' = 0
    /\ emptyCapacitiveValue' = 0
    /\ fullCapacitiveValue' = DefaultFullCapacitiveValue
    /\ totalPumpsSincePowerUp' = 0
    /\ totalPumpsSinceCalibration' = 0
    /\ prefCalibrationValue' = 0
    /\ capacitiveValue' = 0
    /\ calTriggered' = FALSE
    /\ started' = FALSE
    /\ pumpOut' = 0
    /\ lastReading' = 0
    /\ bootStore' = store
    /\ crashes' = crashes + 1
    /\ overIters' = 0
    /\ loopPumps' = 0
    /\ cooldowns' = 0
    /\ idleFirst' = FALSE
    /\ button' = 0
    /\ sawLow' = FALSE
    /\ calChecks' = 0
    /\ calLogs' = 0
    /\ sinceCooldown' = 0
    /\ UNCHANGED <<smooth, commitPending, store, storeOK, pumpsDone>>

---------------------------------------------------------------------------

\* one step of the program
Step ==
    \/ SetupBegin1 \/ SetupLoadPump \/ SetupEnd1
    \/ SetupBegin2 \/ SetupGetCap \/ SetupStoreDefault \/ SetupAdopt \/ SetupEnd2
    \/ SetupButton
    \/ CalEmpty \/ CalPump \/ CalLog \/ CalExit \/ CalFinal
    \/ CalBegin \/ CalPutCap \/ CalReset \/ CalPutPump \/ CalEnd
    \/ SetupEnd3
    \/ PumpBegin \/ PumpOn \/ PumpOff \/ PumpCount \/ PumpPut \/ PumpEnd
    \/ LoopRead \/ LoopIdle \/ LoopCooldown \/ LoopPump \/ LoopInc

Next == Step \/ Reset

Spec == Init /\ [][Next]_vars

\* capValue is an int32 key: values no uint16_t holds, as another writer of the
\* namespace can leave them
AnyCapValues == {65536, 65536 + 30, -1}

InitAnyStore ==
    /\ storeOK \in BOOLEAN
    /\ \E s \in Stores(AnyCapValues, BootPumpValues) : PowerUp(s)
    /\ SmoothIdle

SpecAnyStore == InitAnyStore /\ [][Next]_vars

\* the sketch running without a reset: the Arduino core calls setup() once and
\* loop() forever, every delay() returns, so a statement that can run does run
LiveSpec == Init /\ [][Step]_vars /\ WF_vars(Step)

---------------------------------------------------------------------------
(* getSmoothedTouch(), statement by statement *)

\* raw values of a followed call
SmoothValues == {0, 1, 50, 65535}

\* a call with samples in 1..MaxSamples on any stream of raw values
InitSmooth ==
    /\ storeOK = TRUE
    /\ PowerUp(NoKeys)
    /\ touchInput \in [1..MaxSamples -> SmoothValues]
    /\ g_samples \in 1..MaxSamples
    /\ g_i = 0
    /\ g_sum = 0
    /\ smoothed = 0
    /\ spc = "entry"

\* lines 40-41: uint32_t sum = 0; uint16_t i = 0
SmoothEnter ==
    /\ spc = "entry"
    /\ g_sum' = 0
    /\ g_i' = 0
    /\ spc' = "for"
    /\ UNCHANGED <<program, touchInput, g_samples, smoothed>>

\* sum with a 16-bit accumulator
SampleAdd_U16(acc, v) == ToU16(acc + v)

\* line 42: sum += touchRead(touchPin), in a uint32_t
SampleAdd(acc, v) == acc + v

\* lines 41-44: i < samples: one more sample is read and added; i++
SmoothSample ==
    /\ spc = "for"
    /\ g_i < g_samples
    /\ g_sum' = SampleAdd(g_sum, touchInput[g_i + 1])
    /\ g_i' = ToU16(g_i + 1)
    /\ UNCHANGED <<program, touchInput, g_samples, smoothed, spc>>

\* lines 41, 45: the loop is over: return sum / samples, as a uint16_t
SmoothReturn ==
    /\ spc = "for"
    /\ ~(g_i < g_samples)
    /\ smoothed' = ToU16(g_sum \div g_samples)
    /\ spc' = "done"
    /\ UNCHANGED <<program, touchInput, g_samples, g_i, g_sum>>

NextSmooth == SmoothEnter \/ SmoothSample \/ SmoothReturn

SpecSmooth == InitSmooth /\ [][NextSmooth]_vars

---------------------------------------------------------------------------
(* Positions *)

PumpPcs == {"p_begin", "p_on", "p_off", "p_count", "p_put", "p_end"}

\* the positions runPump returns to
ReturnPcs == {"c_log", "l_inc"}

\* setup() has returned: control is in loop(), or in runPump called by loop()
SetupDone ==
    \/ pc \in {"l_read", "l_cmp", "l_inc"}
    \/ pc \in PumpPcs /\ caller = "loop"

\* between two iterations of loop()
IterationBoundary == pc = "l_read"

\* what the store held at boot under capKey, as getInt(capKey, 0) reads it
BootCap == IF capKey \in DOMAIN bootStore THEN bootStore[capKey] ELSE 0

StoredCap == IF capKey \in DOMAIN store THEN store[capKey] ELSE 0

---------------------------------------------------------------------------
(* Claims *)

\* in the interactive loop of the calibration (lines 144-149)
InCalLoop ==
    \/ pc \in {"c_while", "c_log"}
    \/ pc \in PumpPcs /\ caller = "setup"

\* C1: between iterations of loop(), with k over-threshold iterations since
\* boot (idle iterations anywhere in between), the overflow counter is k mod 7,
\* loop() has actuated the pump k - floor(k/7) times and has taken floor(k/7)
\* cooldowns: iterations 1..6 actuate (counter 1..6), the 7th actuates nothing,
\* cools down and resets the counter, the 8th actuates again.
C1_OverflowSequence ==
    IterationBoundary =>
        /\ overflow_protect = overIters % (OverflowLimit + 2)
        /\ cooldowns = overIters \div (OverflowLimit + 2)
        /\ loopPumps = overIters - cooldowns
        /\ totalPumpsSincePowerUp >= loopPumps

\* an idle first iteration, then 8 over-threshold ones (threshold 45, reading
\* 50): 7 actuations, one cooldown, counter back at 1
C1_Witness ==
    /\ IterationBoundary
    /\ idleFirst
    /\ fullCapacitiveValue = 45
    /\ capacitiveValue = 50
    /\ overIters = 8
    /\ loopPumps = 7
    /\ totalPumpsSincePowerUp = 7
    /\ cooldowns = 1
    /\ overflow_protect = 1

\* C2: every call of runPump increments totalPumpsSincePowerUp and
\* totalPumpsSinceCalibration by exactly 1 (at lines 73-74 and nowhere else in
\* runPump), and when it returns with the store available the persisted
\* totalPump equals the in-memory totalPumpsSinceCalibration.
C2_RunPumpCounts ==
    [][ (pc \in PumpPcs /\ pc' \in PumpPcs \cup ReturnPcs) =>
          /\ pc = "p_count" =>
                /\ totalPumpsSincePowerUp' = totalPumpsSincePowerUp + 1
                /\ totalPumpsSinceCalibration' = totalPumpsSinceCalibration + 1
          /\ pc # "p_count" =>
                UNCHANGED <<totalPumpsSincePowerUp, totalPumpsSinceCalibration>>
          /\ (pc' \in ReturnPcs /\ storeOK) =>
                /\ pumpKey \in DOMAIN store'
                /\ store'[pumpKey] = totalPumpsSinceCalibration' ]_vars

\* runPump has returned, the counter resumed from a persisted value and the
\* persisted value follows it
C2_Witness ==
    /\ pc \in ReturnPcs
    /\ storeOK
    /\ totalPumpsSincePowerUp = 2
    /\ totalPumpsSinceCalibration = 4
    /\ StoredPump = 4

\* C3: capValue absent or 0 at boot, store available, no calibration: when
\* setup() has returned the threshold in use is 45 and capValue holds 45.
C3_DefaultThreshold ==
    (storeOK /\ SetupDone /\ ~calTriggered /\ BootCap = 0) =>
        /\ fullCapacitiveValue = DefaultFullCapacitiveValue
        /\ capKey \in DOMAIN store
        /\ store[capKey] = DefaultFullCapacitiveValue

\* setup() has just returned after a boot with no capValue key
C3_Witness ==
    /\ storeOK
    /\ pc = "l_read"
    /\ totalPumpsSincePowerUp = 0
    /\ ~calTriggered
    /\ capKey \notin DOMAIN bootStore
    /\ StoredCap = 45
    /\ fullCapacitiveValue = 45

C5_CalibrationCommit ==
    (storeOK /\ calTriggered /\ pc \in {"c_end", "s_end3"}) =>
        /\ StoredPump = 0
        /\ totalPumpsSinceCalibration = 0
        /\ StoredCap = lastReading + 1
        /\ fullCapacitiveValue = lastReading + 1

\* C6: the in-memory threshold is always > 0.
C6_ThresholdPositive == fullCapacitiveValue > 0

\* C7 as claimed: an iteration of loop() whose reading is not over the
\* threshold leaves the overflow counter at 0.
C7_IdleResets ==
    [][ (pc = "l_cmp" /\ ~OverThreshold /\ pc' = "l_read") =>
            overflow_protect' = 0 ]_vars

\* C7 amended: the overflow counter is cleared only by the cooldown path (and
\* by a reset of the device); an iteration whose reading is not over the
\* threshold leaves it as it is, and the only other change is the +1 after a
\* pump cycle of loop().
C7_OnlyCooldownResets ==
    [][ /\ (pc = "l_cmp" /\ ~OverThreshold /\ pc' = "l_read") =>
              overflow_protect' = overflow_protect
        /\ (overflow_protect' # overflow_protect /\ crashes' = crashes) =>
              \/ /\ pc = "l_cmp" /\ OverThreshold /\ OverflowTripped
                 /\ overflow_protect' = 0
              \/ /\ pc = "l_inc"
                 /\ overflow_protect' = overflow_protect + 1 ]_vars

\* an idle iteration has ended and the counter is not 0
C7_Witness ==
    /\ pc = "l_read"
    /\ capacitiveValue <= fullCapacitiveValue
    /\ idleFirst
    /\ overIters = 3
    /\ overflow_protect = 3

\* C8: the overflow counter stays within 0..6.
C8_OverflowBounded ==
    /\ overflow_protect >= 0
    /\ overflow_protect <= OverflowLimit + 1

\* the counter at 6 with another over-threshold reading: the cooldown is next
C8_Witness ==
    /\ pc = "l_cmp"
    /\ OverThreshold
    /\ overflow_protect = OverflowLimit + 1

\* C9: with the store available, the actuations completed since the last
\* calibration are never fewer than the persisted totalPump, and every reset
\* loses at most one increment: before any reset the persisted value is short
\* by at most 1, and the counter loaded after the n-th reset is short by at
\* most n.
C9_CrashLosesAtMostOne ==
    storeOK =>
        /\ StoredPump <= pumpsDone
        /\ pumpsDone - StoredPump <= crashes + 1
        /\ pc = "s_end1" =>
              /\ totalPumpsSinceCalibration <= pumpsDone
              /\ pumpsDone - totalPumpsSinceCalibration <= crashes

\* after a reset that fell between the end of an actuation and its
\* putUInt, the loaded counter is one short
C9_Witness ==
    /\ storeOK
    /\ crashes = 1
    /\ pc = "s_end1"
    /\ pumpsDone = 3
    /\ totalPumpsSinceCalibration = 2

\* the bound on runPump calls stops the model, not the program
PumpBoundReached == totalPumpsSincePowerUp >= MaxPumps

\* C10: with the store unavailable nothing is persisted and the handle never
\* opens; the program always has a next step (setup() completes, loop() runs);
\* without calibration the threshold in use is 45 and both pump counters count
\* the session's pump cycles from 0.
C10_StoreUnavailable ==
    ~storeOK =>
        /\ store = bootStore
        /\ ~started
        /\ ENABLED Step \/ PumpBoundReached
        /\ ~calTriggered =>
              /\ fullCapacitiveValue = DefaultFullCapacitiveValue
              /\ totalPumpsSinceCalibration = totalPumpsSincePowerUp
        /\ pc \in {"s_begin1", "s_getPump", "s_end1", "s_begin2", "s_getCap",
                   "s_check", "s_end2", "s_button"} =>
              /\ totalPumpsSincePowerUp = 0
              /\ totalPumpsSinceCalibration = 0

\* the store is unavailable, its content would have set another threshold and
\* counter, and loop() has pumped twice on the defaults
C10_Witness ==
    /\ ~storeOK
    /\ pc = "l_read"
    /\ ~calTriggered
    /\ StoredCap = 30
    /\ StoredPump = 2
    /\ fullCapacitiveValue = 45
    /\ totalPumpsSincePowerUp = 2
    /\ totalPumpsSinceCalibration = 2

RECURSIVE SampleTotal(_, _)
\* the sum of the first n values of the stream s
SampleTotal(s, n) == IF n = 0 THEN 0 ELSE s[n] + SampleTotal(s, n - 1)

\* C11: for samples = n >= 1, getSmoothedTouch returns the truncated mean of
\* the first n raw values (the q with q*n <= total < (q+1)*n) after exactly n
\* reads; n equal values v give v; the operator used by setup() and loop()
\* agrees with the statement-by-statement run.
C11_TruncatedMean ==
    spc = "done" =>
        LET total == SampleTotal(touchInput, g_samples)
        IN  /\ g_i = g_samples
            /\ smoothed * g_samples <= total
            /\ total < (smoothed + 1) * g_samples
            /\ (\A k \in 1..g_samples : touchInput[k] = touchInput[1]) =>
                  smoothed = touchInput[1]
            /\ smoothed = getSmoothedTouch(touchInput, g_samples)

\* three samples 1, 1, 50: the mean 17.33 is returned as 17
C11_Witness ==
    /\ spc = "done"
    /\ g_samples = 3
    /\ touchInput[1] = 1 /\ touchInput[2] = 1 /\ touchInput[3] = 50
    /\ smoothed = 17

\* C12 as claimed: with the trigger input reading HIGH at the post-boot sample
\* and at every later sample, setup() does not get past the calibration loop:
\* the decision loop is not reached.
C12_StuckHighNeverLeaves ==
    (calTriggered /\ ~sawLow) => ~SetupDone

\* C12 amended: the calibration loop goes on while the input reads LOW, not
\* HIGH. With every sample HIGH the loop body never runs (no check read LOW,
\* no pump cycle, no logged reading); and as long as the last sample of a
\* triggered calibration read LOW, setup() is still inside the loop.
C12_LoopRunsWhileLow ==
    /\ (calTriggered /\ ~sawLow) =>
          /\ calChecks = 0
          /\ calLogs = 0
          /\ ~SetupDone => totalPumpsSincePowerUp = 0
          /\ ~InCalLoop \/ pc = "c_while"
    /\ (calTriggered /\ button = 0) => (InCalLoop /\ ~SetupDone)

\* every sample read HIGH and setup() has returned without one pump cycle
C12_Witness ==
    /\ calTriggered
    /\ ~sawLow
    /\ button = 1
    /\ pc = "l_read"
    /\ totalPumpsSincePowerUp = 0

\* setup() between the exit of the calibration loop and its return
AfterCalLoop ==
    \/ pc \in {"c_final", "c_begin", "c_putCap", "c_reset", "c_putPump", "c_end"}
    \/ pc = "s_end3" /\ calTriggered

\* C13: in calibration every loop check that read LOW has been followed by
\* exactly one runPump cycle and one logged reading before the next check; the
\* check that reads HIGH ends the loop with no further pump cycle in setup();
\* from there the threshold is committed and the decision loop is eventually
\* reached.
C13_CalibrationLoop ==
    /\ [](pc = "c_while" =>
             /\ totalPumpsSincePowerUp = calChecks
             /\ calLogs = calChecks)
    /\ [](pc = "c_log" =>
             /\ button = 0
             /\ totalPumpsSincePowerUp = calChecks
             /\ calLogs + 1 = calChecks)
    /\ []((pc \in PumpPcs /\ caller = "setup") =>
             /\ button = 0
             /\ calLogs + 1 = calChecks
             /\ totalPumpsSincePowerUp \in {calChecks - 1, calChecks})
    /\ [](AfterCalLoop =>
             /\ button = 1
             /\ totalPumpsSincePowerUp = calChecks
             /\ calLogs = calChecks)
    /\ []((SetupDone /\ calTriggered) =>
             /\ button = 1
             /\ calLogs = calChecks)
    /\ (pc = "c_final" ~> (pc = "c_end" /\ (storeOK => StoredCap = fullCapacitiveValue)))
    /\ (pc = "c_final" ~> SetupDone)

\* calibration with two pump cycles has ended and loop() is running
C13_Witness ==
    /\ calTriggered /\ calChecks = 2 /\ calLogs = 2 /\ button = 1
    /\ pc = "l_read" /\ totalPumpsSincePowerUp = 2

BeginPcs == {"s_begin1", "s_begin2", "c_begin", "p_begin"}
EndPcs == {"s_end1", "s_end2", "c_end", "s_end3", "p_end"}
AccessPcs == {"s_getPump", "s_getCap", "s_check", "c_putCap", "c_putPump", "p_put"}

\* C15: with the store available, prefs.begin is only called on a closed
\* store, prefs.end only on an open one, and every get and put happens while
\* the store is open.
C15_ScopesAlternate ==
    storeOK =>
        /\ pc \in BeginPcs => ~started
        /\ pc \in EndPcs => started
        /\ pc \in AccessPcs => started

\* the positions where a reading is taken, the trigger input sampled or the
\* threshold compared
ReadPcs == {"s_button", "c_empty", "c_while", "c_log", "c_final", "l_read", "l_cmp"}

\* C16: the pump output only ever holds 0 or the fixed duty; it holds the duty
\* exactly between the two ledcWrite calls of runPump, whose next statement
\* writes 0, so it is 0 wherever a reading is taken, the trigger input is
\* sampled or the threshold is compared.
C16_PumpCompletes ==
    /\ pumpOut \in {0, dutyCycle}
    /\ pumpOut = dutyCycle <=> pc = "p_off"
    /\ pc \in ReadPcs => pumpOut = 0

\* loop() compares a reading after its first pump cycle
C16_Witness ==
    /\ pc = "l_cmp" /\ loopPumps = 1 /\ totalPumpsSincePowerUp = 1
    /\ pumpsDone > 0 /\ pumpOut = 0

\* the persisted threshold: the entry of capKey, if any
CapEntry == IF capKey \in DOMAIN store THEN <<store[capKey]>> ELSE <<>>

\* C17: no step of loop() or of runPump changes the threshold in memory or
\* the persisted capValue; the persisted capValue changes only at the default
\* write of setup() and at the calibration commit, the threshold in memory
\* only where setup() loads or defaults it and where calibration computes it.
C17_ThresholdFrame ==
    [][ /\ ((SetupDone \/ pc \in PumpPcs) /\ crashes' = crashes) =>
              /\ fullCapacitiveValue' = fullCapacitiveValue
              /\ CapEntry' = CapEntry
        /\ CapEntry' # CapEntry => pc \in {"s_check", "c_putCap"}
        /\ (fullCapacitiveValue' # fullCapacitiveValue /\ crashes' = crashes) =>
              pc \in {"s_check", "c_final"}
      ]_vars

\* loop() has run two pump cycles and a cooldown-free iteration on a
\* calibrated, persisted threshold
C17_Witness ==
    /\ pc = "l_read" /\ loopPumps = 2 /\ calTriggered /\ calChecks = 1
    /\ CapEntry = <<fullCapacitiveValue>> /\ fullCapacitiveValue = 11

\* C18: with the store available the persisted totalPump decreases at no step
\* other than the counter write of the calibration commit, which sets it to
\* 0; after a boot the counter in memory is the persisted value and the
\* power-up counter is 0, and each pump cycle persists the counter it
\* incremented.
C18_CounterMonotonic ==
    /\ [][ storeOK =>
              /\ StoredPump' < StoredPump => (pc = "c_putPump" /\ StoredPump' = 0)
              /\ (pc \in PumpPcs /\ crashes' = crashes) => StoredPump' \in {StoredPump, StoredPump + 1}
          ]_vars
    /\ [](storeOK =>
              /\ pc = "s_end1" =>
                    /\ totalPumpsSinceCalibration = StoredPump
                    /\ totalPumpsSincePowerUp = 0
              /\ pc = "p_end" => StoredPump = totalPumpsSinceCalibration)

\* the boot after a reset resumes from a persisted count of 4
C18_Witness ==
    /\ storeOK /\ crashes = 1 /\ pc = "s_end1"
    /\ StoredPump = 4 /\ totalPumpsSinceCalibration = 4
    /\ totalPumpsSincePowerUp = 0

\* C19: whenever loop() reads or compares, overflow_protect is the number of
\* pump cycles loop() has run since the last cooldown (or since boot); that
\* number never exceeds OverflowLimit + 1 = 6, whatever readings come in
\* between, and until setup() has returned, calibration pump cycles included,
\* the counter is 0.
C19_CounterIsPumpsSinceCooldown ==
    /\ pc \in {"l_read", "l_cmp"} => overflow_protect = sinceCooldown
    /\ SetupDone =>
          /\ sinceCooldown <= OverflowLimit + 1
          /\ overflow_protect <= sinceCooldown
          /\ sinceCooldown <= overflow_protect + 1
    /\ ~SetupDone => (overflow_protect = 0 /\ sinceCooldown = 0)

\* after a calibration pump cycle and six pump cycles of loop(), an iteration
\* with a reading not over the threshold has just ended, with no cooldown yet
C19_Witness ==
    /\ pc = "l_read" /\ calChecks = 1 /\ cooldowns = 0
    /\ capacitiveValue <= fullCapacitiveValue
    /\ overflow_protect = OverflowLimit + 1 /\ sinceCooldown = OverflowLimit + 1

=============================================================================
